---- MODULE Spec2Model ----
(***************************************************************************)
(* Model of the code-change analyzers of AMS_Project:                      *)
(*   astTest.py : the fingerprint variant (ASTHasher, three-flag severity)  *)
(*   ast2.py    : the line-scorer variant (unparse + unified diff)          *)
(* Both take two parsed modules and report added / removed / changed       *)
(* functions and changed class methods.                                     *)
(***************************************************************************)
EXTENDS Integers, Sequences, FiniteSets, TLC

VARIABLES old_ast, new_ast, old_visitor, new_visitor, changes, changes2, pc, call

vars == <<old_ast, new_ast, old_visitor, new_visitor, changes, changes2, pc, call>>

(***************************************************************************)
(* Syntax trees as ast.parse returns them.  A node carries its type name   *)
(* and its fields in _fields order; a field value is a node, a list, or a  *)
(* leaf (str, int, bool, float, None).  A leaf keeps its Python type, its  *)
(* repr and, for numbers, its numeric value, since Python's == compares    *)
(* int, bool and float by value.                                           *)
(***************************************************************************)
Leaf(ty, s, num) == [k |-> "leaf", ty |-> ty, s |-> s, num |-> num]
Node(type, fields) == [k |-> "node", type |-> type, fields |-> fields]
List(items) == [k |-> "list", items |-> items]
Fld(name, val) == [name |-> name, val |-> val]

None == Leaf("NoneType", "None", 0)
Str(s) == Leaf("str", s, 0)
Int1 == Leaf("int", "1", 1)
Int2 == Leaf("int", "2", 2)
Bool1 == Leaf("bool", "True", 1)
Float1 == Leaf("float", "1.0", 1)

IsAST(v) == v.k = "node"
IsList(v) == v.k = "list"

Load == Node("Load", <<>>)
Store == Node("Store", <<>>)
Name(id) == Node("Name", <<Fld("id", Str(id)), Fld("ctx", Load)>>)
NameStore(id) == Node("Name", <<Fld("id", Str(id)), Fld("ctx", Store)>>)
Constant(v) == Node("Constant", <<Fld("value", v), Fld("kind", None)>>)
Attribute(value, attr) ==
    Node("Attribute", <<Fld("value", value), Fld("attr", Str(attr)), Fld("ctx", Load)>>)
keyword(name, value) == Node("keyword", <<Fld("arg", Str(name)), Fld("value", value)>>)
Call(func, args, keywords) ==
    Node("Call", <<Fld("func", func), Fld("args", List(args)), Fld("keywords", List(keywords))>>)
Compare(left, ops, comparators) ==
    Node("Compare", <<Fld("left", left), Fld("ops", List(ops)),
                      Fld("comparators", List(comparators))>>)
Expr(value) == Node("Expr", <<Fld("value", value)>>)
Assign(target, value) ==
    Node("Assign", <<Fld("targets", List(<<NameStore(target)>>)), Fld("value", value),
                     Fld("type_comment", None)>>)
Pass == Node("Pass", <<>>)
alias(name) == Node("alias", <<Fld("name", Str(name)), Fld("asname", None)>>)
Import(name) == Node("Import", <<Fld("names", List(<<alias(name)>>))>>)
If(test, body, orelse) ==
    Node("If", <<Fld("test", test), Fld("body", List(body)), Fld("orelse", List(orelse))>>)
For(target, iter, body) ==
    Node("For", <<Fld("target", NameStore(target)), Fld("iter", iter), Fld("body", List(body)),
                  Fld("orelse", List(<<>>)), Fld("type_comment", None)>>)
While(test, body) ==
    Node("While", <<Fld("test", test), Fld("body", List(body)), Fld("orelse", List(<<>>))>>)
withitem(expr, var) ==
    Node("withitem", <<Fld("context_expr", expr), Fld("optional_vars", NameStore(var))>>)
With(item, body) ==
    Node("With", <<Fld("items", List(<<item>>)), Fld("body", List(body)),
                   Fld("type_comment", None)>>)
arg(name) ==
    Node("arg", <<Fld("arg", Str(name)), Fld("annotation", None), Fld("type_comment", None)>>)
arguments(args, vararg, kwonlyargs, kw_defaults, defaults) ==
    Node("arguments", <<Fld("posonlyargs", List(<<>>)), Fld("args", List(args)),
                        Fld("vararg", vararg), Fld("kwonlyargs", List(kwonlyargs)),
                        Fld("kw_defaults", List(kw_defaults)), Fld("kwarg", None),
                        Fld("defaults", List(defaults))>>)
FunctionDef(name, args, body) ==
    Node("FunctionDef", <<Fld("name", Str(name)), Fld("args", args), Fld("body", List(body)),
                          Fld("decorator_list", List(<<>>)), Fld("returns", None),
                          Fld("type_comment", None)>>)
ClassDef(name, body) ==
    Node("ClassDef", <<Fld("name", Str(name)), Fld("bases", List(<<>>)),
                       Fld("keywords", List(<<>>)), Fld("body", List(body)),
                       Fld("decorator_list", List(<<>>))>>)
Module(body) == Node("Module", <<Fld("body", List(body)), Fld("type_ignores", List(<<>>))>>)

\* getattr(node, field)
Field(node, name) ==
    node.fields[CHOOSE i \in 1..Len(node.fields) : node.fields[i].name = name].val

(***************************************************************************)
(* ASTHasher.visit.  A fresh ASTHasher is made per statement; visit feeds  *)
(* the node's type name to self.hash and recurses, on the same hash, into  *)
(* list items that are nodes and into node-valued fields.  Nothing marks   *)
(* where a field or a type name ends.  HashStream is the byte stream the   *)
(* hash has been fed when the outermost visit returns.                     *)
(***************************************************************************)
RECURSIVE HashStream(_), HashFields(_, _), HashItems(_, _)
HashStream(node) == node.type \o HashFields(node.fields, 1)

HashFields(fields, i) ==
    IF i > Len(fields) THEN ""
    ELSE LET value == fields[i].val
             fed == IF IsList(value) THEN HashItems(value.items, 1)
                    ELSE IF IsAST(value) THEN HashStream(value)
                    ELSE ""
         IN fed \o HashFields(fields, i + 1)

HashItems(items, i) ==
    IF i > Len(items) THEN ""
    ELSE (IF IsAST(items[i]) THEN HashStream(items[i]) ELSE "") \o HashItems(items, i + 1)

\* hashlib.md5().hexdigest(): the digest is a function of the stream alone.
\* MD5 is taken to be collision-free on the streams of the model, so a
\* digest is represented by the stream it digests.
hexdigest(stream) == <<"md5", stream>>

\* mutant: the digest is read before the hash has been fed
ASTHasher_visit_unfed(node) == hexdigest("")

ASTHasher_visit(node) == hexdigest(HashStream(node))

(***************************************************************************)
(* Python's != on field values: nodes have no __eq__, so a node differs    *)
(* from every other object; numbers (int, bool, float) compare by value;   *)
(* other leaves by type and value.                                         *)
(***************************************************************************)
Numeric == {"int", "bool", "float"}

PyNotEqual(v1, v2) ==
    IF IsAST(v1) \/ IsAST(v2) THEN TRUE
    ELSE IF v1.ty \in Numeric /\ v2.ty \in Numeric THEN v1.num # v2.num
    ELSE v1.ty # v2.ty \/ v1.s # v2.s

RECURSIVE _compare_ast_nodes(_, _), CompareFields(_, _, _), CompareItems(_, _, _)
_compare_ast_nodes(node1, node2) ==
    IF node1.type # node2.type THEN FALSE
    ELSE CompareFields(node1, node2, 1)

CompareFields(node1, node2, i) ==
    IF i > Len(node1.fields) THEN TRUE
    ELSE LET value1 == node1.fields[i].val
             value2 == Field(node2, node1.fields[i].name)
             same == IF IsAST(value1) /\ IsAST(value2)
                         THEN _compare_ast_nodes(value1, value2)
                     ELSE IF IsList(value1) /\ IsList(value2)
                         THEN /\ Len(value1.items) = Len(value2.items)
                              /\ CompareItems(value1.items, value2.items, 1)
                     ELSE ~PyNotEqual(value1, value2)
         IN same /\ CompareFields(node1, node2, i + 1)

CompareItems(items1, items2, i) ==
    IF i > Len(items1) THEN TRUE
    ELSE LET same == IF IsAST(items1[i]) /\ IsAST(items2[i])
                         THEN _compare_ast_nodes(items1[i], items2[i])
                     ELSE ~PyNotEqual(items1[i], items2[i])
         IN same /\ CompareItems(items1, items2, i + 1)

_has_signature_change(old_func, new_func) ==
    ~_compare_ast_nodes(Field(old_func, "args"), Field(new_func, "args"))

(***************************************************************************)
(* ChangeType of astTest.py and _analyze_body_change.                      *)
(***************************************************************************)
ChangeType(structural, minor_edit, rearrangement) ==
    [structural |-> structural, minor_edit |-> minor_edit, rearrangement |-> rearrangement]

NoChange == ChangeType(FALSE, FALSE, FALSE)

Hashes(body) == [i \in 1..Len(body) |-> ASTHasher_visit(body[i])]

SetOf(seq) == {seq[i] : i \in 1..Len(seq)}

\* mutant: the first comparison is made on the sets, so order is not seen
_analyze_body_change_unordered(old_body, new_body) ==
    LET old_set == SetOf(Hashes(old_body))
        new_set == SetOf(Hashes(new_body))
    IN IF old_set = new_set THEN NoChange
       ELSE IF Cardinality(old_set) # Cardinality(new_set) THEN ChangeType(TRUE, FALSE, FALSE)
       ELSE ChangeType(FALSE, TRUE, FALSE)

_analyze_body_change(old_body, new_body) ==
    LET old_hashes == Hashes(old_body)
        new_hashes == Hashes(new_body)
        old_set == SetOf(old_hashes)
        new_set == SetOf(new_hashes)
    IN IF old_hashes = new_hashes THEN NoChange
       ELSE IF Cardinality(old_set) # Cardinality(new_set) THEN ChangeType(TRUE, FALSE, FALSE)
       ELSE IF old_set # new_set THEN ChangeType(FALSE, TRUE, FALSE)
       ELSE ChangeType(FALSE, FALSE, TRUE)

(***************************************************************************)
(* ast.iter_child_nodes and ast.walk (breadth-first, the root first).      *)
(***************************************************************************)
RECURSIVE ItemNodes(_, _), ChildNodes(_, _)
ItemNodes(items, i) ==
    IF i > Len(items) THEN <<>>
    ELSE (IF IsAST(items[i]) THEN <<items[i]>> ELSE <<>>) \o ItemNodes(items, i + 1)

ChildNodes(fields, i) ==
    IF i > Len(fields) THEN <<>>
    ELSE LET value == fields[i].val
             here == IF IsAST(value) THEN <<value>>
                     ELSE IF IsList(value) THEN ItemNodes(value.items, 1)
                     ELSE <<>>
         IN here \o ChildNodes(fields, i + 1)

iter_child_nodes(node) == ChildNodes(node.fields, 1)

RECURSIVE WalkQueue(_)
WalkQueue(todo) ==
    IF Len(todo) = 0 THEN <<>>
    ELSE <<Head(todo)>> \o WalkQueue(Tail(todo) \o iter_child_nodes(Head(todo)))

walk(node) == WalkQueue(<<node>>)

(***************************************************************************)
(* Python dicts keyed by name: d[k] = v overwrites, the last write wins.   *)
(***************************************************************************)
EmptyDict == [x \in {} |-> None]
DictSet(d, key, v) == [x \in (DOMAIN d) \cup {key} |-> IF x = key THEN v ELSE d[x]]
keys(d) == DOMAIN d

NameOf(node) == Field(node, "name").s

(***************************************************************************)
(* ASTVisitor: visit_FunctionDef and visit_ClassDef record the node under  *)
(* its name and go on into its children (generic_visit), depth first.      *)
(***************************************************************************)
NewVisitor == [functions |-> EmptyDict, classes |-> EmptyDict]

RECURSIVE ASTVisitor_visit(_, _), generic_visit(_, _, _)
ASTVisitor_visit(self, node) ==
    LET recorded ==
            IF node.type = "FunctionDef"
                THEN [self EXCEPT !.functions = DictSet(@, NameOf(node), node)]
            ELSE IF node.type = "ClassDef"
                THEN [self EXCEPT !.classes = DictSet(@, NameOf(node), node)]
            ELSE self
    IN generic_visit(recorded, iter_child_nodes(node), 1)

generic_visit(self, children, i) ==
    IF i > Len(children) THEN self
    ELSE generic_visit(ASTVisitor_visit(self, children[i]), children, i + 1)

(***************************************************************************)
(* astTest.py: per-function classification.                                *)
(***************************************************************************)
Body(func) == Field(func, "body").items

\* names of the FunctionDef nodes under func; node != func drops the root,
\* which walk yields first (no other node of a tree is the tree itself)
NestedNames(func) ==
    LET nodes == walk(func)
    IN {NameOf(nodes[i]) : i \in {j \in 2..Len(nodes) : nodes[j].type = "FunctionDef"}}

_has_nested_function_change(old_func, new_func) ==
    NestedNames(old_func) # NestedNames(new_func)

_analyze_function_change(func_name) ==
    LET old_func == old_visitor.functions[func_name]
        new_func == new_visitor.functions[func_name]
    IN [name |-> func_name,
        signature_change |-> _has_signature_change(old_func, new_func),
        body_change |-> _analyze_body_change(Body(old_func), Body(new_func)),
        nested_function_change |-> _has_nested_function_change(old_func, new_func)]

\* {node.name: node for node in ast.walk(cls) if isinstance(node, ast.FunctionDef)}
RECURSIVE MethodDict(_, _)
MethodDict(nodes, i) ==
    IF i = 0 THEN EmptyDict
    ELSE IF nodes[i].type = "FunctionDef"
        THEN DictSet(MethodDict(nodes, i - 1), NameOf(nodes[i]), nodes[i])
    ELSE MethodDict(nodes, i - 1)

Methods(cls) == MethodDict(walk(cls), Len(walk(cls)))

\* One class's share of _analyze_class_method_changes.  A report list filled
\* while iterating a Python set has the set's iteration order, which is
\* unspecified; such a list is modelled by the set of its elements.
ClassMethodChanges(class_name) ==
    LET old_methods == Methods(old_visitor.classes[class_name])
        new_methods == Methods(new_visitor.classes[class_name])
        signature_change(method_name) ==
            _has_signature_change(old_methods[method_name], new_methods[method_name])
        body_change(method_name) ==
            _analyze_body_change(Body(old_methods[method_name]), Body(new_methods[method_name]))
    IN {[class_name |-> class_name, method_name |-> method_name,
         signature_change |-> signature_change(method_name),
         body_change |-> body_change(method_name)] :
            method_name \in {m \in keys(old_methods) \cap keys(new_methods) :
                                signature_change(m) \/ body_change(m) # NoChange}}

_analyze_class_method_changes ==
    UNION {ClassMethodChanges(class_name) :
            class_name \in keys(old_visitor.classes) \cap keys(new_visitor.classes)}

(***************************************************************************)
(* ast2.py reads the trees as text: ast.dump for signatures, ast.unparse   *)
(* and difflib.unified_diff for bodies.                                    *)
(***************************************************************************)
Repr(leaf) == IF leaf.ty = "str" THEN "'" \o leaf.s \o "'" ELSE leaf.s

RECURSIVE Join(_, _)
Join(strings, sep) ==
    IF Len(strings) = 0 THEN ""
    ELSE IF Len(strings) = 1 THEN strings[1]
    ELSE strings[1] \o sep \o Join(Tail(strings), sep)

\* ast.dump: Type(field=value, ...); a field that is None is left out
RECURSIVE dump(_), DumpValue(_), DumpFields(_, _), DumpItems(_, _)
dump(node) == node.type \o "(" \o Join(DumpFields(node.fields, 1), ", ") \o ")"

DumpValue(v) ==
    IF IsAST(v) THEN dump(v)
    ELSE IF IsList(v) THEN "[" \o Join(DumpItems(v.items, 1), ", ") \o "]"
    ELSE Repr(v)

DumpFields(fields, i) ==
    IF i > Len(fields) THEN <<>>
    ELSE (IF fields[i].val = None THEN <<>>
          ELSE <<fields[i].name \o "=" \o DumpValue(fields[i].val)>>)
         \o DumpFields(fields, i + 1)

DumpItems(items, i) ==
    IF i > Len(items) THEN <<>>
    ELSE <<DumpValue(items[i])>> \o DumpItems(items, i + 1)

\* ast.unparse of an expression
CmpOp(op) ==
    CASE op.type = "Is" -> " is "
      [] op.type = "IsNot" -> " is not "
      [] op.type = "In" -> " in "
      [] op.type = "NotIn" -> " not in "

RECURSIVE UnparseExpr(_), UnparseExprs(_, _), UnparseComparisons(_, _, _)
UnparseExpr(e) ==
    CASE e.type = "Name" -> Field(e, "id").s
      [] e.type = "Constant" -> Repr(Field(e, "value"))
      [] e.type = "Attribute" -> UnparseExpr(Field(e, "value")) \o "." \o Field(e, "attr").s
      [] e.type = "keyword" -> Field(e, "arg").s \o "=" \o UnparseExpr(Field(e, "value"))
      [] e.type = "Call" ->
            UnparseExpr(Field(e, "func")) \o "("
            \o Join(UnparseExprs(Field(e, "args").items \o Field(e, "keywords").items, 1), ", ")
            \o ")"
      [] e.type = "Compare" ->
            UnparseExpr(Field(e, "left"))
            \o UnparseComparisons(Field(e, "ops").items, Field(e, "comparators").items, 1)

UnparseExprs(es, i) ==
    IF i > Len(es) THEN <<>> ELSE <<UnparseExpr(es[i])>> \o UnparseExprs(es, i + 1)

UnparseComparisons(ops, comparators, i) ==
    IF i > Len(ops) THEN ""
    ELSE CmpOp(ops[i]) \o UnparseExpr(comparators[i])
         \o UnparseComparisons(ops, comparators, i + 1)

\* the parameter list of a def line
RECURSIVE UnparsePositional(_, _, _), UnparseKwOnly(_, _, _)
UnparsePositional(args, defaults, i) ==
    IF i > Len(args) THEN <<>>
    ELSE LET d == i - (Len(args) - Len(defaults))
             text == Field(args[i], "arg").s
                     \o (IF d >= 1 THEN "=" \o UnparseExpr(defaults[d]) ELSE "")
         IN <<text>> \o UnparsePositional(args, defaults, i + 1)

UnparseKwOnly(kwonlyargs, kw_defaults, i) ==
    IF i > Len(kwonlyargs) THEN <<>>
    ELSE LET text == Field(kwonlyargs[i], "arg").s
                     \o (IF IsAST(kw_defaults[i]) THEN "=" \o UnparseExpr(kw_defaults[i])
                         ELSE "")
         IN <<text>> \o UnparseKwOnly(kwonlyargs, kw_defaults, i + 1)

UnparseArguments(a) ==
    LET vararg == Field(a, "vararg")
        kwonlyargs == Field(a, "kwonlyargs").items
        star == IF IsAST(vararg) THEN <<"*" \o Field(vararg, "arg").s>>
                ELSE IF Len(kwonlyargs) > 0 THEN <<"*">>
                ELSE <<>>
    IN Join(UnparsePositional(Field(a, "args").items, Field(a, "defaults").items, 1)
            \o star
            \o UnparseKwOnly(kwonlyargs, Field(a, "kw_defaults").items, 1), ", ")

\* ast.unparse of a statement, as the lines of its text; a def that is not
\* the first thing written is preceded by an empty line
Indent == "    "

RECURSIVE UnparseStmt(_, _, _), UnparseBlock(_, _, _)
UnparseStmt(st, indent, first) ==
    CASE st.type = "Pass" -> <<indent \o "pass">>
      [] st.type = "Import" ->
            <<indent \o "import " \o Field(Field(st, "names").items[1], "name").s>>
      [] st.type = "Expr" -> <<indent \o UnparseExpr(Field(st, "value"))>>
      [] st.type = "Assign" ->
            <<indent \o UnparseExpr(Field(st, "targets").items[1]) \o " = "
              \o UnparseExpr(Field(st, "value"))>>
      [] st.type = "If" ->
            <<indent \o "if " \o UnparseExpr(Field(st, "test")) \o ":">>
            \o UnparseBlock(Field(st, "body").items, indent \o Indent, 1)
            \o (IF Len(Field(st, "orelse").items) = 0 THEN <<>>
                ELSE <<indent \o "else:">>
                     \o UnparseBlock(Field(st, "orelse").items, indent \o Indent, 1))
      [] st.type = "For" ->
            <<indent \o "for " \o UnparseExpr(Field(st, "target")) \o " in "
              \o UnparseExpr(Field(st, "iter")) \o ":">>
            \o UnparseBlock(Field(st, "body").items, indent \o Indent, 1)
      [] st.type = "While" ->
            <<indent \o "while " \o UnparseExpr(Field(st, "test")) \o ":">>
            \o UnparseBlock(Field(st, "body").items, indent \o Indent, 1)
      [] st.type = "With" ->
            LET item == Field(st, "items").items[1]
            IN <<indent \o "with " \o UnparseExpr(Field(item, "context_expr")) \o " as "
                 \o UnparseExpr(Field(item, "optional_vars")) \o ":">>
               \o UnparseBlock(Field(st, "body").items, indent \o Indent, 1)
      [] st.type = "FunctionDef" ->
            (IF first THEN <<>> ELSE <<"">>)
            \o <<indent \o "def " \o NameOf(st) \o "("
                 \o UnparseArguments(Field(st, "args")) \o "):">>
            \o UnparseBlock(Field(st, "body").items, indent \o Indent, 1)

UnparseBlock(stmts, indent, i) ==
    IF i > Len(stmts) THEN <<>>
    ELSE UnparseStmt(stmts[i], indent, FALSE) \o UnparseBlock(stmts, indent, i + 1)

\* ast.unparse(func).split('\n')
unparse(func) == UnparseStmt(func, "", TRUE)

(***************************************************************************)
(* difflib.unified_diff(a, b, n=0): two header lines, then per run of      *)
(* differing lines a hunk header, the removed lines ('-') and the added    *)
(* lines ('+').  The runs lie between the matching blocks, found by        *)
(* taking the longest common block (the earliest in a, then in b, among    *)
(* the longest) and recursing on both sides of it.                         *)
(***************************************************************************)
RECURSIVE MatchLen(_, _, _, _)
MatchLen(a, b, i, j) ==
    IF i > Len(a) \/ j > Len(b) THEN 0
    ELSE IF a[i] # b[j] THEN 0
    ELSE 1 + MatchLen(a, b, i + 1, j + 1)

find_longest_match(a, b) ==
    LET starts == (1..Len(a)) \X (1..Len(b))
        size == [st \in starts |-> MatchLen(a, b, st[1], st[2])]
        longest == {st \in starts : \A other \in starts : size[other] <= size[st]}
        earlier(st, other) == st[1] < other[1] \/ (st[1] = other[1] /\ st[2] <= other[2])
    IN IF starts = {} THEN [i |-> 1, j |-> 1, size |-> 0]
       ELSE LET best == CHOOSE st \in longest : \A other \in longest : earlier(st, other)
            IN [i |-> best[1], j |-> best[2], size |-> size[best]]

Prefixed(sign, lines) == [i \in 1..Len(lines) |-> sign \o lines[i]]

RECURSIVE Hunks(_, _)
Hunks(a, b) ==
    IF Len(a) = 0 /\ Len(b) = 0 THEN <<>>
    ELSE LET m == find_longest_match(a, b)
         IN IF m.size = 0 THEN <<"@@">> \o Prefixed("-", a) \o Prefixed("+", b)
            ELSE Hunks(SubSeq(a, 1, m.i - 1), SubSeq(b, 1, m.j - 1))
                 \o Hunks(SubSeq(a, m.i + m.size, Len(a)), SubSeq(b, m.j + m.size, Len(b)))

unified_diff(a, b) ==
    IF Len(Hunks(a, b)) = 0 THEN <<>> ELSE <<"--- ", "+++ ">> \o Hunks(a, b)

(***************************************************************************)
(* str helpers                                                             *)
(***************************************************************************)
startswith(str, prefix) ==
    Len(str) >= Len(prefix) /\ SubSeq(str, 1, Len(prefix)) = prefix

Contains(str, sub) ==
    \E i \in 1..(Len(str) - Len(sub) + 1) : SubSeq(str, i, i + Len(sub) - 1) = sub

RECURSIVE lstrip(_), rstrip(_)
lstrip(str) ==
    IF startswith(str, " ") THEN lstrip(SubSeq(str, 2, Len(str))) ELSE str

rstrip(str) ==
    IF Len(str) > 0 /\ SubSeq(str, Len(str), Len(str)) = " "
        THEN rstrip(SubSeq(str, 1, Len(str) - 1))
    ELSE str

strip(str) == rstrip(lstrip(str))

(***************************************************************************)
(* ast2.py: ChangeType and the line scorer _categorize_change.             *)
(***************************************************************************)
ChangeType2(type, description, priority) ==
    [type |-> type, description |-> description, priority |-> priority]

AssignmentExcluded == {"if", "for", "while", "def", "class"}
ControlFlowKeywords == {"if", "else", "elif", "for", "while", "try", "except", "with"}

_categorize_change(line) ==
    LET stripped_line == strip(line)
    IN IF startswith(stripped_line, "#")
           THEN ChangeType2("minor", "Comment changed", 1)
       ELSE IF startswith(stripped_line, "import ") \/ startswith(stripped_line, "from ")
           THEN ChangeType2("significant", "Import statement changed", 7)
       ELSE IF stripped_line = ""
           THEN ChangeType2("minor", "Whitespace change", 1)
       ELSE IF /\ Contains(stripped_line, "=")
               /\ ~\E kw \in AssignmentExcluded : Contains(stripped_line, kw)
           THEN ChangeType2("minor", "Variable assignment changed", 3)
       ELSE IF \E kw \in ControlFlowKeywords : Contains(stripped_line, kw)
           THEN ChangeType2("major", "Control flow changed", 9)
       ELSE IF startswith(stripped_line, "def ") \/ startswith(stripped_line, "class ")
           THEN ChangeType2("major", "Function or class definition changed", 10)
       ELSE ChangeType2("significant", "Code logic changed", 5)

\* the lines _analyze_body_changes scores: diff[2:], those starting with + or -,
\* without their first character
RECURSIVE ChangedLines(_, _)
ChangedLines(diff, i) ==
    IF i > Len(diff) THEN <<>>
    ELSE (IF startswith(diff[i], "+") \/ startswith(diff[i], "-")
              THEN <<SubSeq(diff[i], 2, Len(diff[i]))>>
          ELSE <<>>)
         \o ChangedLines(diff, i + 1)

_analyze_body_changes(old_func, new_func) ==
    LET old_body == unparse(old_func)
        new_body == unparse(new_func)
        lines == ChangedLines(unified_diff(old_body, new_body), 3)
    IN [i \in 1..Len(lines) |-> _categorize_change(lines[i])]

_analyze_signature_change(old_func, new_func) ==
    IF dump(Field(old_func, "args")) # dump(Field(new_func, "args"))
        THEN ChangeType2("significant", "Function signature changed", 8)
    ELSE None

ClassMethodChanges2(class_name) ==
    LET old_methods == Methods(old_visitor.classes[class_name])
        new_methods == Methods(new_visitor.classes[class_name])
        signature_change(method_name) ==
            _analyze_signature_change(old_methods[method_name], new_methods[method_name])
        body_changes(method_name) ==
            _analyze_body_changes(old_methods[method_name], new_methods[method_name])
    IN {[class_name |-> class_name, method_name |-> method_name,
         signature_change |-> signature_change(method_name),
         body_changes |-> body_changes(method_name)] :
            method_name \in {m \in keys(old_methods) \cap keys(new_methods) :
                                signature_change(m) # None \/ Len(body_changes(m)) > 0}}

\* ast2.py's _analyze_class_method_changes
_analyze_class_method_changes2 ==
    UNION {ClassMethodChanges2(class_name) :
            class_name \in keys(old_visitor.classes) \cap keys(new_visitor.classes)}

(***************************************************************************)
(* The source texts the analyzers are run on, as their parse trees.        *)
(***************************************************************************)
NoArgs == arguments(<<>>, None, <<>>, <<>>, <<>>)
Args(names, defaults) ==
    arguments([i \in 1..Len(names) |-> arg(names[i])], None, <<>>, <<>>, defaults)

AssignX == Assign("x", Constant(Int1))
AssignY == Assign("y", Constant(Int2))
PrintCall(x) == Expr(Call(Name("print"), <<Name(x)>>, <<>>))
CallStmt(f) == Expr(Call(Name(f), <<>>, <<>>))
NestedDef(name) == FunctionDef(name, NoArgs, <<Pass>>)

\* def f(): pass
DefF == FunctionDef("f", NoArgs, <<Pass>>)
\* def g(): def a(): pass
DefG == FunctionDef("g", NoArgs, <<NestedDef("a")>>)
\* class C: def m(self): def a(): pass
ClassA == ClassDef("C", <<FunctionDef("m", Args(<<"self">>, <<>>), <<NestedDef("a")>>)>>)
\* class C: def m(self): def b(): pass
ClassB == ClassDef("C", <<FunctionDef("m", Args(<<"self">>, <<>>), <<NestedDef("b")>>)>>)
\* class C: def m(self, x=1): pass
ClassS == ClassDef("C", <<FunctionDef("m", Args(<<"self", "x">>, <<Constant(Int1)>>), <<Pass>>)>>)

ModuleItems == {DefF, DefG, ClassA, ClassB, ClassS}

MaxDefs == 2

SeqsUpTo(S, n) == UNION {[1..len -> S] : len \in 0..n}

Modules == {Module(body) : body \in SeqsUpTo(ModuleItems, MaxDefs)}

(***************************************************************************)
(* The analyzer: CodeChangeAnalyzer.__init__ and analyze_changes of both   *)
(* files.                                                                  *)
(***************************************************************************)
NotBuilt == [functions |-> "unset", classes |-> "unset"]
NotCalled == [status |-> "not called"]

Init ==
    /\ old_ast \in Modules
    /\ new_ast \in Modules
    /\ old_visitor = NotBuilt
    /\ new_visitor = NotBuilt
    /\ changes = NotCalled
    /\ changes2 = NotCalled
    /\ call = NotCalled
    /\ pc = "new"

\* __init__ (the same in both files): parse both texts, visit both trees
Construct ==
    /\ pc = "new"
    /\ old_visitor' = ASTVisitor_visit(NewVisitor, old_ast)
    /\ new_visitor' = ASTVisitor_visit(NewVisitor, new_ast)
    /\ pc' = "constructed"
    /\ UNCHANGED <<old_ast, new_ast, changes, changes2, call>>

\* mutant: the operands of the two set differences are exchanged
analyze_changes_swapped ==
    LET old_names == keys(old_visitor.functions)
        new_names == keys(new_visitor.functions)
    IN [status |-> "returned",
        added_functions |-> old_names \ new_names,
        removed_functions |-> new_names \ old_names,
        function_changes |->
            {_analyze_function_change(func_name) : func_name \in old_names \cap new_names},
        class_method_changes |-> _analyze_class_method_changes]

\* astTest.py analyze_changes
analyze_changes ==
    LET old_names == keys(old_visitor.functions)
        new_names == keys(new_visitor.functions)
    IN [status |-> "returned",
        added_functions |-> new_names \ old_names,
        removed_functions |-> old_names \ new_names,
        function_changes |->
            {_analyze_function_change(func_name) : func_name \in old_names \cap new_names},
        class_method_changes |-> _analyze_class_method_changes]

AnalyzeChanges ==
    /\ pc = "constructed"
    /\ changes' = analyze_changes
    /\ pc' = "analyzed"
    /\ UNCHANGED <<old_ast, new_ast, old_visitor, new_visitor, changes2, call>>

\* ast2.py analyze_changes.  The loop over the shared names calls
\* self._analyze_function_change, which the class does not define: the first
\* iteration raises AttributeError and no report is returned.
analyze_changes2 ==
    LET old_names == keys(old_visitor.functions)
        new_names == keys(new_visitor.functions)
    IN IF old_names \cap new_names # {}
           THEN [status |-> "raised", error |-> "AttributeError"]
       ELSE [status |-> "returned",
             added_functions |-> new_names \ old_names,
             removed_functions |-> old_names \ new_names,
             changed_functions |-> {},
             changed_class_methods |-> _analyze_class_method_changes2]

AnalyzeChanges2 ==
    /\ pc = "analyzed"
    /\ changes2' = analyze_changes2
    /\ pc' = "analyzed2"
    /\ UNCHANGED <<old_ast, new_ast, old_visitor, new_visitor, changes, call>>

\* ast2.py _analyze_class_method_changes called on the analyzer directly
CallClassMethodChanges2 ==
    /\ pc = "analyzed2"
    /\ call' = [status |-> "returned", result |-> _analyze_class_method_changes2]
    /\ pc' = "done"
    /\ UNCHANGED <<old_ast, new_ast, old_visitor, new_visitor, changes, changes2>>

Next == Construct \/ AnalyzeChanges \/ AnalyzeChanges2 \/ CallClassMethodChanges2

Spec == Init /\ [][Next]_vars

(***************************************************************************)
(* _analyze_body_change on a body and an edited copy of it.                *)
(***************************************************************************)
\* for item in data: print(item)
ForPrint == For("item", Name("data"), <<PrintCall("item")>>)
\* for item in data: pass
ForPass == For("item", Name("data"), <<Pass>>)
\* while data: item = data.pop(); print(item)
WhilePop ==
    While(Name("data"),
          <<Assign("item", Call(Attribute(Name("data"), "pop"), <<>>, <<>>)), PrintCall("item")>>)

BodyStmts == {AssignX, AssignY, PrintCall("x"), Pass, ForPrint, ForPass, WhilePop}

MaxBody == 3

Bodies == SeqsUpTo(BodyStmts, MaxBody) \ {<<>>}

Unused == "unused"

InitBody ==
    /\ old_ast = Unused /\ new_ast = Unused
    /\ old_visitor = Unused /\ new_visitor = Unused
    /\ changes = Unused /\ changes2 = Unused
    /\ \E body \in Bodies :
        call = [old_body |-> body, new_body |-> body, edit |-> "none", i |-> 0, j |-> 0,
                result |-> NoChange]
    /\ pc = "body"

\* the new version swaps two different statements of the old body
SwapStatements ==
    /\ pc = "body"
    /\ \E i, j \in 1..Len(call.old_body) :
        /\ i < j
        /\ call.old_body[i] # call.old_body[j]
        /\ call' = [call EXCEPT !.edit = "swap", !.i = i, !.j = j,
                                !.new_body = [call.old_body EXCEPT ![i] = call.old_body[j],
                                                                    ![j] = call.old_body[i]]]
    /\ pc' = "edited"
    /\ UNCHANGED <<old_ast, new_ast, old_visitor, new_visitor, changes, changes2>>

\* the new version replaces one statement of the old body in place
ReplaceStatement ==
    /\ pc = "body"
    /\ \E i \in 1..Len(call.old_body), stmt \in BodyStmts :
        /\ stmt # call.old_body[i]
        /\ call' = [call EXCEPT !.edit = "replace", !.i = i,
                                !.new_body = [call.old_body EXCEPT ![i] = stmt]]
    /\ pc' = "edited"
    /\ UNCHANGED <<old_ast, new_ast, old_visitor, new_visitor, changes, changes2>>

AnalyzeBodyChange ==
    /\ pc \in {"body", "edited"}
    /\ call' = [call EXCEPT !.result = _analyze_body_change(call.old_body, call.new_body)]
    /\ pc' = "classified"
    /\ UNCHANGED <<old_ast, new_ast, old_visitor, new_visitor, changes, changes2>>

NextBody == SwapStatements \/ ReplaceStatement \/ AnalyzeBodyChange

SpecBody == InitBody /\ [][NextBody]_vars

(***************************************************************************)
(* ASTHasher().visit on two statements.                                    *)
(***************************************************************************)
\* if c: a() / else: b()
IfElse == If(Name("c"), <<CallStmt("a")>>, <<CallStmt("b")>>)
\* if c: a(); b()
IfBoth == If(Name("c"), <<CallStmt("a"), CallStmt("b")>>, <<>>)
\* if c: a()
IfOnly == If(Name("c"), <<CallStmt("a")>>, <<>>)
\* x = a is b not in c
IsThenNotIn ==
    Assign("x", Compare(Name("a"), <<Node("Is", <<>>), Node("NotIn", <<>>)>>,
                        <<Name("b"), Name("c")>>))
\* x = a is not b in c
IsNotThenIn ==
    Assign("x", Compare(Name("a"), <<Node("IsNot", <<>>), Node("In", <<>>)>>,
                        <<Name("b"), Name("c")>>))
\* with open(p, mode='r') as f: pass
WithOpen ==
    With(withitem(Call(Name("open"), <<Name("p")>>, <<keyword("mode", Constant(Str("r")))>>),
                  "f"), <<Pass>>)

HashStmts ==
    BodyStmts \cup {IfElse, IfBoth, IfOnly, IsThenNotIn, IsNotThenIn, WithOpen, NestedDef("a")}

InitHash ==
    /\ old_ast = Unused /\ new_ast = Unused
    /\ old_visitor = Unused /\ new_visitor = Unused
    /\ changes = Unused /\ changes2 = Unused
    /\ \E first \in HashStmts, second \in HashStmts :
        call = [first |-> first, second |-> second, hash1 |-> "", hash2 |-> ""]
    /\ pc = "unhashed"

VisitFirst ==
    /\ pc = "unhashed"
    /\ call' = [call EXCEPT !.hash1 = ASTHasher_visit(call.first)]
    /\ pc' = "first hashed"
    /\ UNCHANGED <<old_ast, new_ast, old_visitor, new_visitor, changes, changes2>>

VisitSecond ==
    /\ pc = "first hashed"
    /\ call' = [call EXCEPT !.hash2 = ASTHasher_visit(call.second)]
    /\ pc' = "hashed"
    /\ UNCHANGED <<old_ast, new_ast, old_visitor, new_visitor, changes, changes2>>

NextHash == VisitFirst \/ VisitSecond

SpecHash == InitHash /\ [][NextHash]_vars

(***************************************************************************)
(* The astTest.py analyzer on two versions of one function f, whose        *)
(* parameter list and body vary.                                           *)
(***************************************************************************)
Defaulted(value) == Args(<<"a">>, <<Constant(value)>>)

ArgLists ==
    {NoArgs, Args(<<"a">>, <<>>), Args(<<"a", "b">>, <<>>),
     Defaulted(Int1), Defaulted(Int2), Defaulted(Bool1), Defaulted(Float1), Defaulted(Str("x")),
     arguments(<<arg("a")>>, arg("b"), <<>>, <<>>, <<>>),
     arguments(<<>>, None, <<arg("a")>>, <<None>>, <<>>),
     arguments(<<>>, None, <<arg("a")>>, <<Constant(Int1)>>, <<>>)}

SigBodies == {<<Pass>>, <<AssignX>>, <<AssignY>>}

SigModules == {Module(<<FunctionDef("f", args, body)>>) : args \in ArgLists, body \in SigBodies}

InitSig ==
    /\ old_ast \in SigModules
    /\ new_ast \in SigModules
    /\ old_visitor = NotBuilt
    /\ new_visitor = NotBuilt
    /\ changes = NotCalled
    /\ changes2 = NotCalled
    /\ call = NotCalled
    /\ pc = "new"

SpecSig == InitSig /\ [][Next]_vars

(***************************************************************************)
(* ast2.py _analyze_body_changes on two versions of one method.            *)
(***************************************************************************)
\* result = retry(x)
AssignRetry == Assign("result", Call(Name("retry"), <<Name("x")>>, <<>>))

LineStmts == {AssignX, AssignRetry, PrintCall("x"), WithOpen, IfElse, Import("os"), NestedDef("a")}

MaxLineStmts == 2

LineFuncs ==
    {FunctionDef("m", Args(<<"self">>, <<>>), body) :
        body \in SeqsUpTo(LineStmts, MaxLineStmts) \ {<<>>}}

InitLine ==
    /\ old_ast = Unused /\ new_ast = Unused
    /\ old_visitor = Unused /\ new_visitor = Unused
    /\ changes = Unused /\ changes2 = Unused
    /\ \E old_func \in LineFuncs, new_func \in LineFuncs :
        call = [old_func |-> old_func, new_func |-> new_func, lines |-> <<>>, result |-> <<>>]
    /\ pc = "unscored"

AnalyzeBodyChanges ==
    /\ pc = "unscored"
    /\ call' = [call EXCEPT
                  !.lines = ChangedLines(unified_diff(unparse(call.old_func),
                                                      unparse(call.new_func)), 3),
                  !.result = _analyze_body_changes(call.old_func, call.new_func)]
    /\ pc' = "scored"
    /\ UNCHANGED <<old_ast, new_ast, old_visitor, new_visitor, changes, changes2>>

NextLine == AnalyzeBodyChanges

SpecLine == InitLine /\ [][NextLine]_vars

(***************************************************************************)
(* Properties                                                              *)
(***************************************************************************)
\* the names of the function definitions anywhere in a tree
FunctionNames(tree) ==
    LET nodes == walk(tree)
    IN {NameOf(nodes[i]) : i \in {j \in 1..Len(nodes) : nodes[j].type = "FunctionDef"}}

\* a tree without its leaf values: node types and their arrangement in fields
RECURSIVE Shape(_)
Shape(v) ==
    IF IsAST(v)
        THEN [type |-> v.type,
              fields |-> [i \in 1..Len(v.fields) |-> Shape(v.fields[i].val)]]
    ELSE IF IsList(v) THEN [items |-> [i \in 1..Len(v.items) |-> Shape(v.items[i])]]
    ELSE [leaf |-> TRUE]

Returned(report) == report.status = "returned"
Called(report) == report.status # "not called"

\* what the inclusion rule counts as a detected change of a matched pair
Detected(old_def, new_def) ==
    \/ _has_signature_change(old_def, new_def)
    \/ _has_nested_function_change(old_def, new_def)
    \/ _analyze_body_change(Body(old_def), Body(new_def)) # NoChange

SharedFunctions == keys(old_visitor.functions) \cap keys(new_visitor.functions)
SharedClasses == keys(old_visitor.classes) \cap keys(new_visitor.classes)
SharedMethods(class_name) ==
    keys(Methods(old_visitor.classes[class_name]))
        \cap keys(Methods(new_visitor.classes[class_name]))

\* C1: comparing a text with itself, analyze_changes returns a report whose
\* added, removed, changed-function and changed-method lists are all empty,
\* also when the text defines functions.
C1_NoOpComparison ==
    old_ast = new_ast =>
        /\ Called(changes) =>
            /\ Returned(changes)
            /\ changes.added_functions = {}
            /\ changes.removed_functions = {}
            /\ changes.function_changes = {}
            /\ changes.class_method_changes = {}
        /\ Called(changes2) =>
            /\ Returned(changes2)
            /\ changes2.added_functions = {}
            /\ changes2.removed_functions = {}
            /\ changes2.changed_functions = {}
            /\ changes2.changed_class_methods = {}

\* C2: a matched function or method has a record in the report exactly when
\* its signature change, its nested-definition change or a body change is
\* detected.
C2_InclusionRule ==
    Returned(changes) =>
        /\ \A name \in SharedFunctions :
            (\E record \in changes.function_changes : record.name = name)
                <=> Detected(old_visitor.functions[name], new_visitor.functions[name])
        /\ \A class_name \in SharedClasses : \A method_name \in SharedMethods(class_name) :
            (\E record \in changes.class_method_changes :
                record.class_name = class_name /\ record.method_name = method_name)
                <=> Detected(Methods(old_visitor.classes[class_name])[method_name],
                             Methods(new_visitor.classes[class_name])[method_name])

\* C3: in every report returned, added is the function names of the new
\* version that the old version lacks, removed the names of the old version
\* that the new one lacks, and the two share no name.
SetDifference(added, removed) ==
    /\ added = FunctionNames(new_ast) \ FunctionNames(old_ast)
    /\ removed = FunctionNames(old_ast) \ FunctionNames(new_ast)
    /\ added \cap removed = {}

C3_SetDifference ==
    /\ Returned(changes) =>
        SetDifference(changes.added_functions, changes.removed_functions)
    /\ Returned(changes2) =>
        SetDifference(changes2.added_functions, changes2.removed_functions)

C3_Witness ==
    /\ Returned(changes)
    /\ changes.added_functions # {}
    /\ changes.removed_functions # {}
    /\ SharedFunctions # {}

\* C9: constructing the analyzer and calling analyze_changes always returns
\* a report, also when the two versions share a function name.
C9_AlwaysReturns ==
    /\ Called(changes) => Returned(changes)
    /\ Called(changes2) => Returned(changes2)

Classified(edit) == pc = "classified" /\ call.edit = edit

Rearrangement == ChangeType(FALSE, FALSE, TRUE)
MinorEdit == ChangeType(FALSE, TRUE, FALSE)

\* C4 as stated: swapping any two statements of a body is classified as a
\* rearrangement, also when the two have the same shape.
C4_SwapIsRearrangement ==
    Classified("swap") => call.result = Rearrangement

\* C4 as amended: swapping two statements with different fingerprints is
\* classified as a rearrangement; swapping two statements with equal
\* fingerprints is classified as unchanged.
C4_SwapByFingerprint ==
    Classified("swap") =>
        IF ASTHasher_visit(call.old_body[call.i]) # ASTHasher_visit(call.old_body[call.j])
            THEN call.result = Rearrangement
        ELSE call.result = NoChange

C4_Witness ==
    /\ Classified("swap")
    /\ Shape(call.old_body[call.i]) # Shape(call.old_body[call.j])
    /\ call.result = Rearrangement

IsLoopOf(body, type, count) ==
    /\ Len(body) = 1
    /\ body[1].type = type
    /\ Len(Field(body[1], "body").items) = count

LoopReplaced ==
    /\ pc = "classified"
    /\ IsLoopOf(call.old_body, "For", 1)
    /\ IsLoopOf(call.new_body, "While", 2)

\* C5 as stated: a body that is one for loop of one statement, replaced by
\* one while loop of two statements, is classified structural.
C5_LoopReplacementStructural ==
    LoopReplaced => call.result.structural /\ ~call.result.minor_edit

\* C5 as amended: a body that is one for loop of one statement, replaced by
\* one while loop of two statements, is classified minor_edit and not
\* structural.
C5_LoopReplacementMinorEdit ==
    LoopReplaced => call.result = MinorEdit

C5_Witness == LoopReplaced /\ call.result.minor_edit

\* C6: replacing one statement in place by a statement of another shape is
\* classified minor_edit, never structural, also in a body that holds
\* several statements of one shape.
C6_InPlaceEditIsMinor ==
    (Classified("replace")
        /\ Shape(call.new_body[call.i]) # Shape(call.old_body[call.i]))
    => call.result = MinorEdit

\* C7: two statements of different shape have different fingerprints.
C7_ShapeSensitive ==
    (pc = "hashed" /\ Shape(call.first) # Shape(call.second)) => call.hash1 # call.hash2

\* C8: signature_change of a matched function is true exactly when the two
\* parameter lists are not deeply equal, whatever the bodies are.
OnlyFunction(tree) == Field(tree, "body").items[1]

C8_SignatureChangeIsDeepInequality ==
    Returned(changes) =>
        \A record \in changes.function_changes :
            record.signature_change
                <=> Field(OnlyFunction(old_ast), "args") # Field(OnlyFunction(new_ast), "args")

\* C10: a changed line that is no comment, not blank and no import is scored
\* as an assignment (priority 3) only if it holds '=' and no control-flow
\* keyword, and every such line holding a control-flow keyword is scored
\* major with priority 9.
Scored(line) ==
    LET stripped_line == strip(line)
    IN /\ ~startswith(stripped_line, "#")
       /\ stripped_line # ""
       /\ ~startswith(stripped_line, "import ")
       /\ ~startswith(stripped_line, "from ")

HasControlFlow(line) == \E kw \in ControlFlowKeywords : Contains(line, kw)

C10_AssignmentVersusControlFlow ==
    pc = "scored" =>
        \A n \in 1..Len(call.lines) :
            Scored(call.lines[n]) =>
                /\ call.result[n].priority = 3 =>
                    Contains(call.lines[n], "=") /\ ~HasControlFlow(call.lines[n])
                /\ HasControlFlow(call.lines[n]) =>
                    call.result[n].type = "major" /\ call.result[n].priority = 9
====
